---- MODULE Spec2Model ----
(***************************************************************************)
(* Model of the Firestore retry helpers of cloudfunctions-go-utils         *)
(* (src/firebasefunctions.go): addEntityToFirestore,                       *)
(* getEntityFromFirestore, editEntityInFirestore,                          *)
(* deleteEntityFromFirestore and firebaseDocumentIteratorWithRetry.        *)
(*                                                                         *)
(* Text is modelled as a sequence of tokens (a token is a piece of text    *)
(* that the code never splits): equality of texts is equality of the       *)
(* sequences, strings.Contains is the contiguous-subsequence test, and     *)
(* fmt.Errorf / fmt.Sprintf concatenate the pieces of the format string    *)
(* with the formatted arguments.                                           *)
(***************************************************************************)
EXTENDS Integers, Sequences, FiniteSets, TLC

\* Largest retry budget that FIRESTORE_RETRIES_NUMBER is set to in the model.
MaxRetries == 3

(***************************************************************************)
(* Text helpers                                                            *)
(***************************************************************************)

\* strings.Contains(s, sub)
Contains(s, sub) ==
    \E k \in 0..(Len(s) - Len(sub)) : SubSeq(s, k + 1, k + Len(sub)) = sub

Digits == <<"0", "1", "2", "3", "4", "5", "6", "7", "8", "9">>

IsDigit(ch) == \E d \in 1..Len(Digits) : Digits[d] = ch

DigitVal(ch) == (CHOOSE d \in 1..Len(Digits) : Digits[d] = ch) - 1

RECURSIVE ParseDigits(_)
\* value of a non-empty sequence of decimal digits, most significant first
ParseDigits(s) ==
    IF Len(s) = 0 THEN 0
    ELSE ParseDigits(SubSeq(s, 1, Len(s) - 1)) * 10 + DigitVal(s[Len(s)])

RECURSIVE FormatDigits(_)
\* decimal digits of n >= 0, most significant first
FormatDigits(n) ==
    IF n < 10 THEN <<Digits[n + 1]>>
    ELSE FormatDigits(n \div 10) \o <<Digits[(n % 10) + 1]>>

\* strconv.Itoa / the %d and %v verbs applied to an int
Itoa(n) == IF n < 0 THEN <<"-">> \o FormatDigits(-n) ELSE FormatDigits(n)

(***************************************************************************)
(* Error values. An error is a record: id tells which error object it is   *)
(* (err == iterator.Done compares objects), msg is the text of Error().    *)
(***************************************************************************)

NilErr == [id |-> "nil", msg |-> <<>>]

NewError(id, msg) == [id |-> id, msg |-> msg]

\* fmt.Errorf / errors.New: a new error object with the formatted text
Errorf(msg) == NewError("fmt.Errorf", msg)

SyntaxErrorAtoi(s) ==
    NewError("strconv.NumError",
             <<"strconv.Atoi: parsing \"">> \o s \o <<"\": invalid syntax">>)

\* strconv.Atoi(s): optional sign, then one or more decimal digits
Atoi(s) ==
    LET signed == Len(s) > 0 /\ s[1] \in {"-", "+"}
        body   == IF signed THEN SubSeq(s, 2, Len(s)) ELSE s
    IN  IF Len(body) = 0 \/ \E k \in 1..Len(body) : ~IsDigit(body[k])
        THEN [n |-> 0, err |-> SyntaxErrorAtoi(s)]
        ELSE [n |-> IF s[1] = "-" THEN -ParseDigits(body) ELSE ParseDigits(body),
              err |-> NilErr]

(***************************************************************************)
(* Program constants                                                       *)
(***************************************************************************)

ClosingTransportError == <<"Unavailable desc = ", "transport is closing">>

UnavailableServiceError ==
    <<"Unavailable desc = ", "The service is temporarily unavailable">>

\* the literal that getEntityFromFirestore searches for
TemporarilyUnavailableText == <<"The service is temporarily unavailable">>

UsersCollection == "users"

PromoItemsCollection == "promo_items"

FirestoreCollectionNames == <<UsersCollection, PromoItemsCollection>>

LogTypeInfo == "info"

\* iterator.Done, the end-of-sequence sentinel of the Firestore iterator
IteratorDone == NewError("iterator.Done", <<"no more items in iterator">>)

\* Mutant: the allowlist check lets every name through
firestoreCollectionExists_anyName(docName) ==
    docName = docName

\* firestoreCollectionExists(docName)
firestoreCollectionExists(docName) ==
    \E k \in 1..Len(FirestoreCollectionNames) : FirestoreCollectionNames[k] = docName

\* The line LogWrite hands to log.Printf (userId is "" at every call site modelled)
LogWrite(logType, errorCode, errorMessage) ==
    <<"application:server, ", "logType:", logType, ", errorCode:">>
        \o Itoa(errorCode) \o <<", message:">> \o errorMessage

\* The entry every operation logs when FIRESTORE_RETRIES_NUMBER does not parse
RetriesMissingLog(n) ==
    LogWrite(LogTypeInfo, 0,
             <<"FIRESTORE_RETRIES_NUMBER is missing, was set to: ">> \o Itoa(n))

\* Mutant: the fallback keeps the 0 that Atoi returns with its error
ReadRetriesNumber_keepsZero(value) ==
    LET parsed == Atoi(value)
    IN  IF parsed.err # NilErr
        THEN [n |-> parsed.n, err |-> parsed.err, logs |-> <<RetriesMissingLog(parsed.n)>>]
        ELSE [n |-> parsed.n, err |-> NilErr, logs |-> <<>>]

\* firestoreRetriesNumber, err := strconv.Atoi(os.Getenv(...)); if err != nil {...}
\* gives the budget, the value left in err and the entries logged.
ReadRetriesNumber(value) ==
    LET parsed == Atoi(value)
    IN  IF parsed.err # NilErr
        THEN [n |-> 1, err |-> parsed.err, logs |-> <<RetriesMissingLog(1)>>]
        ELSE [n |-> parsed.n, err |-> NilErr, logs |-> <<>>]

(***************************************************************************)
(* Sessions: 0 is the nil client, 1 the client the caller passed in, and   *)
(* k + 1 the client made by the k-th connection refresh of the call.       *)
(***************************************************************************)

NilClient == 0

CallerClient == 1

(***************************************************************************)
(* The five operations: what differs between them                          *)
(***************************************************************************)

Ops == {"add", "get", "edit", "delete", "iter"}

CrudOps == {"add", "get", "edit", "delete"}

\* The checks made before the loop: the error returned, NilErr if none
addValidate(collectionName) ==
    IF ~firestoreCollectionExists(collectionName)
    THEN Errorf(<<"Collection name '", collectionName, "' does not exist">>)
    ELSE NilErr

\* Mutant: getEntityFromFirestore without its entityID check
getValidate_noIDCheck(collectionName, entityID) ==
    IF ~firestoreCollectionExists(collectionName)
    THEN Errorf(<<"document name '", collectionName, "' does not exist">>)
    ELSE NilErr

getValidate(collectionName, entityID) ==
    IF entityID = "" THEN Errorf(<<"entity ID is required field for get">>)
    ELSE IF ~firestoreCollectionExists(collectionName)
    THEN Errorf(<<"document name '", collectionName, "' does not exist">>)
    ELSE NilErr

editValidate(collectionName, entityID) ==
    IF entityID = "" THEN Errorf(<<"Entity ID is required field for edit">>)
    ELSE IF ~firestoreCollectionExists(collectionName)
    THEN Errorf(<<"Document name '", collectionName, "' does not exist">>)
    ELSE NilErr

deleteValidate(collectionName, entityID) ==
    IF entityID = "" THEN Errorf(<<"Entity ID is required field for deletion">>)
    ELSE IF ~firestoreCollectionExists(collectionName)
    THEN Errorf(<<"Document name does not exist">>)
    ELSE NilErr

Validate(o, collectionName, entityID) ==
    CASE o = "add"    -> addValidate(collectionName)
      [] o = "get"    -> getValidate(collectionName, entityID)
      [] o = "edit"   -> editValidate(collectionName, entityID)
      [] o = "delete" -> deleteValidate(collectionName, entityID)
      [] o = "iter"   -> NilErr

\* Mutant: addEntityToFirestore retries on any message holding the closing text
addRetryable_contains(e) == Contains(e.msg, ClosingTransportError)

\* The condition under which each loop retries
addRetryable(e) == e.msg = ClosingTransportError

getRetryable(e) ==
    e.msg = ClosingTransportError \/ Contains(e.msg, TemporarilyUnavailableText)

editRetryable(e) ==
    e.msg = ClosingTransportError \/ Contains(e.msg, UnavailableServiceError)

\* Mutant: deleteEntityFromFirestore compares with the other constant
deleteRetryable_otherConstant(e) == e.msg = UnavailableServiceError

deleteRetryable(e) == e.msg = ClosingTransportError

\* Mutant: the cursor advance retries on every error
iterRetryable_anyError(e) == e # NilErr

iterRetryable(e) == e.msg = ClosingTransportError

Retryable(o, e) ==
    CASE o = "add"    -> addRetryable(e)
      [] o = "get"    -> getRetryable(e)
      [] o = "edit"   -> editRetryable(e)
      [] o = "delete" -> deleteRetryable(e)
      [] o = "iter"   -> iterRetryable(e)

\* Mutant: the cursor advance recreates the client like the CRUD operations
RefreshesOnRetry_everywhere(o) == o \in Ops

\* Whether the retry branch recreates the client before it continues
RefreshesOnRetry(o) == o \in CrudOps

\* What the retry branch logs before the refresh
RetryLog(o, collectionName, e) ==
    IF o = "get"
    THEN <<LogWrite(LogTypeInfo, 0,
                    <<"failed to get data from the '", collectionName,
                      "' collection, Error: ">> \o e.msg \o <<". Will do retry!">>)>>
    ELSE <<>>

\* "return if another error"
OtherError(o, collectionName, entityID, e) ==
    CASE o = "add" ->
           Errorf(<<"Unsuccessful adding data to the '", collectionName,
                    "' collection, Error: ">> \o e.msg)
      [] o = "get" ->
           Errorf(<<"unsuccessful getting data from the '", collectionName,
                    "' collection, Error: ">> \o e.msg)
      [] o = "edit" ->
           Errorf(<<"Unsuccessful updating '", entityID, "' in the '", collectionName,
                    "' collection, Error: ">> \o e.msg)
      [] o = "delete" ->
           Errorf(<<"Unsuccessful deletion ", entityID, " from ", collectionName,
                    " collection, Error: ">> \o e.msg)
      [] o = "iter" ->
           Errorf(<<"Unsuccessful document iteration, Error: ">> \o e.msg)

\* "we got here if we exceed retries number"
ExceedError(o, collectionName, entityID, e) ==
    CASE o = "add" ->
           Errorf(<<"Exceed retries number for adding data to the '", collectionName,
                    "' collection, Error: ">> \o e.msg)
      [] o = "get" ->
           Errorf(<<"Exceed retries number for getting data from the '", collectionName,
                    "' collection, Error: ">> \o e.msg)
      [] o = "edit" ->
           Errorf(<<"Exceed retries number for updating '", entityID, "' in the '",
                    collectionName, "' collection, Error: ">> \o e.msg)
      [] o = "delete" ->
           Errorf(<<"Exceed retries number for deletion ", entityID, " from ",
                    collectionName, " collection, Error: ">> \o e.msg)
      [] o = "iter" ->
           Errorf(<<"Unsuccessful document iteration, Error: ">> \o e.msg)

\* The error returned when the refresh fails with left = firestoreRetriesNumber-i
UpdatingError(o, left, e) ==
    IF o = "get"
    THEN Errorf(<<"error updating fireclient (">> \o Itoa(left)
                \o <<" - retries left): ">> \o e.msg)
    ELSE Errorf(<<"Error updating fireclient (">> \o Itoa(left)
                \o <<" - retries left): ">> \o e.msg)

\* Mutant: the success return hands back the nil client of the error returns
getFirestoreAppAndClientWithContext_nilClient(appErr, clientErr, fresh) ==
    IF appErr # NilErr THEN [client |-> NilClient, err |-> appErr]
    ELSE IF clientErr # NilErr THEN [client |-> NilClient, err |-> clientErr]
    ELSE [client |-> NilClient, err |-> NilErr]

\* getFirestoreAppAndClientWithContext: appErr and clientErr are what
\* firebase.NewApp and fireapp.Firestore return, fresh the client the latter makes
getFirestoreAppAndClientWithContext(appErr, clientErr, fresh) ==
    IF appErr # NilErr THEN [client |-> NilClient, err |-> appErr]
    ELSE IF clientErr # NilErr THEN [client |-> NilClient, err |-> clientErr]
    ELSE [client |-> fresh, err |-> NilErr]

(***************************************************************************)
(* Inputs                                                                  *)
(***************************************************************************)

\* Values of FIRESTORE_RETRIES_NUMBER; <<>> is what os.Getenv gives when unset
EnvValues ==
    {<<>>, <<"x">>, <<"-">>, <<"1", "x">>, <<"-", "1">>, <<"0", "2">>}
        \cup {Itoa(n) : n \in 0..MaxRetries}
        \cup {<<"+">> \o Itoa(MaxRetries)}

Collections == {UsersCollection, PromoItemsCollection, "orders"}

EntityIDs == {"", "id1"}

Entities == {"nil", "entity"}

\* Errors the storage backend returns
BackendErrors ==
    { NewError("backend", ClosingTransportError),
      NewError("backend", <<"rpc error: code = ">> \o ClosingTransportError),
      NewError("backend", UnavailableServiceError),
      NewError("backend", <<"rpc error: code = ">> \o UnavailableServiceError),
      NewError("backend", TemporarilyUnavailableText \o <<".">>),
      NewError("backend", <<"rpc error: code = ", "NotFound desc = ", "not found">>),
      NewError("backend", IteratorDone.msg),
      IteratorDone }

\* What one backend invocation returns: a value and an error
BackendResults ==
    {[val |-> "doc", err |-> NilErr]} \cup {[val |-> "nil", err |-> e] : e \in BackendErrors}

AppError == NewError("firebase", <<"error getting fireapp">>)

ClientError == NewError("firebase", <<"error getting fireclient">>)

\* The arguments each operation reads (the others are fixed)
ArgsOf(o) ==
    CASE o = "add"    -> Collections \X {""} \X Entities
      [] o = "get"    -> Collections \X EntityIDs \X {"nil"}
      [] o = "edit"   -> Collections \X EntityIDs \X Entities
      [] o = "delete" -> Collections \X EntityIDs \X {"nil"}
      [] o = "iter"   -> {<<"", "", "nil">>}

(***************************************************************************)
(* State                                                                   *)
(***************************************************************************)

VARIABLES
    env,                    \* value of FIRESTORE_RETRIES_NUMBER
    pc,                     \* "idle", "loop", "refresh" or "done"
    op,                     \* the operation called
    collectionName,         \* its arguments
    entityID,
    entity,
    firestoreRetriesNumber, \* its local variables
    i,
    err,
    fireclient,
    result,
    ret,                    \* how the call ended: kind "none", "return" or "panic"
    backendCalls,           \* the backend invocations of the call, in order
    refreshCalls,           \* the connection refreshes of the call, in order
    logs,                   \* the lines the call handed to LogWrite
    cl,                     \* logv2: the CloudLogger that New built and what New returned
    clientsCreated,         \* logv2: the Cloud Logging clients created so far
    lastLog,                \* logv2: the last log call and what it did, in order
    calls,                  \* concurrent CRUD calls: the local variables of each
    observed,               \* concurrent CRUD calls: what each was given, in order
    secret,                 \* GetSecret: the locals of the call and its backend invocations
    ie,                     \* getIEAccessToken: the locals of the call and what it did
    store,                  \* the FCShippingSecretData document in storage
    now,                    \* the clock, in hours
    authz                   \* checkFirebaseUserAuthorized: the last call and its outcome

\* The state of the logv2 package
logVars == <<cl, clientsCreated, lastLog>>

\* The state of the CRUD calls that run concurrently
concVars == <<calls, observed>>

\* The state of one Firestore call
firestoreVars == <<env, pc, op, collectionName, entityID, entity, firestoreRetriesNumber, i,
                   err, fireclient, result, ret, backendCalls, refreshCalls, logs>>

\* The state of the secret, access-token and authorization helpers
auxVars == <<secret, ie, store, now, authz>>

vars == <<env, pc, op, collectionName, entityID, entity, firestoreRetriesNumber, i,
          err, fireclient, result, ret, backendCalls, refreshCalls, logs,
          cl, clientsCreated, lastLog, calls, observed,
          secret, ie, store, now, authz>>

NoRet == [kind |-> "none", val |-> "nil", err |-> NilErr]

Returned(val, e) == [kind |-> "return", val |-> val, err |-> e]

\* err.Error() on a nil error: a nil pointer dereference
Panicked == [kind |-> "panic", val |-> "nil", err |-> NilErr]

(***************************************************************************)
(* logv2 (src/unnamed/part_000): the values before New is called            *)
(***************************************************************************)

\* The zero value of Options
ZeroOptions ==
    [ProjectID |-> "", ForceStdout |-> FALSE, Hook |-> "nil", NotifyMinSeverity |-> "Default"]

\* What New is given before it is called: nothing
NoArgs ==
    [projectID |-> "", stdoutOnly |-> FALSE,
     notifier |-> [kind |-> "none", hook |-> "nil", min |-> "Default"],
     detect |-> [id |-> "", err |-> NilErr], newClient |-> NilErr]

\* No CloudLogger yet: built tells whether New has returned one, initErr is the
\* error New returns with it
NoLogger ==
    [built |-> FALSE, opts |-> ZeroOptions, client |-> "nil", logger |-> "nil",
     initErr |-> NilErr, closed |-> FALSE, args |-> NoArgs]

\* No log call yet
NoLog == [sev |-> "none", events |-> <<>>, returned |-> FALSE]

(***************************************************************************)
(* Concurrent CRUD calls: the values before any call                       *)
(***************************************************************************)

\* How many CRUD calls run at the same time
NumCalls == 2

Calls == 1..NumCalls

\* The local variables of a call that has not started
IdleCall ==
    [pc |-> "idle", op |-> "none", collectionName |-> "", entityID |-> "",
     firestoreRetriesNumber |-> 0, i |-> 0, err |-> NilErr, fireclient |-> NilClient,
     result |-> "nil", ret |-> NoRet, backendCalls |-> <<>>, refreshCalls |-> <<>>]

\* What a call was given: its arguments and the environment value it read
\* (start), then what the backend and the refresh returned to it (steps)
NothingObserved ==
    [begun |-> FALSE,
     start |-> [o |-> "none", coll |-> "", id |-> "", value |-> <<>>],
     steps |-> <<>>]

(***************************************************************************)
(* GetSecret, getIEAccessToken, checkFirebaseUserAuthorized: the values    *)
(* before any call                                                         *)
(***************************************************************************)

\* The locals of GetSecret before it is called; rawCalls are the results of
\* its getSecretRaw calls
NoSecretCall ==
    [pc |-> "idle", caller |-> "none", keyName |-> "", i |-> 0, err |-> NilErr,
     secretBytes |-> "", ret |-> NoRet, rawCalls |-> <<>>]

\* The locals of getIEAccessToken before it is called; renewals and writes are
\* what it asked of the renewal endpoint and of storage, checked is the time
\* and the expiration date its test read
NoIECall ==
    [pc |-> "idle", model |-> [AccessToken |-> "", TokenExpirationDate |-> 0],
     newToken |-> "", ret |-> NoRet, renewals |-> <<>>, writes |-> <<>>,
     checked |-> [done |-> FALSE, at |-> 0, expiration |-> 0]]

\* The document before any renewal
InitialSecretData == [AccessToken |-> "old-token", TokenExpirationDate |-> 0]

\* No call of checkFirebaseUserAuthorized yet
NoAuthCall ==
    [called |-> FALSE, authHeader |-> <<>>, authErr |-> NilErr,
     verified |-> [token |-> "nil", err |-> NilErr],
     ret |-> [kind |-> "none", token |-> "nil", status |-> 0], logs |-> <<>>]

Init ==
    /\ secret = NoSecretCall
    /\ ie = NoIECall
    /\ store = InitialSecretData
    /\ now = 0
    /\ authz = NoAuthCall
    /\ cl = NoLogger
    /\ clientsCreated = 0
    /\ lastLog = NoLog
    /\ calls = [c \in Calls |-> IdleCall]
    /\ observed = [c \in Calls |-> NothingObserved]
    /\ env = <<>>
    /\ pc = "idle"
    /\ op = "none"
    /\ collectionName = ""
    /\ entityID = ""
    /\ entity = "nil"
    /\ firestoreRetriesNumber = 0
    /\ i = 0
    /\ err = NilErr
    /\ fireclient = NilClient
    /\ result = "nil"
    /\ ret = NoRet
    /\ backendCalls = <<>>
    /\ refreshCalls = <<>>
    /\ logs = <<>>

(***************************************************************************)
(* Actions                                                                 *)
(***************************************************************************)

\* os.Setenv between two calls
SetEnv(value) ==
    /\ pc = "idle"
    /\ env' = value
    /\ UNCHANGED <<pc, op, collectionName, entityID, entity, firestoreRetriesNumber, i,
                   err, fireclient, result, ret, backendCalls, refreshCalls, logs>>
    /\ UNCHANGED <<logVars, concVars>>
    /\ UNCHANGED auxVars

\* The call, up to the loop: read the budget, check the arguments
BeginCall(o, coll, id, ent) ==
    /\ pc = "idle"
    /\ LET cfg == ReadRetriesNumber(env)
           bad == Validate(o, coll, id)
       IN  /\ firestoreRetriesNumber' = cfg.n
           /\ err' = cfg.err
           /\ logs' = cfg.logs
           /\ IF bad # NilErr
              THEN pc' = "done" /\ ret' = Returned("nil", bad)
              ELSE pc' = "loop" /\ ret' = NoRet
    /\ op' = o
    /\ collectionName' = coll
    /\ entityID' = id
    /\ entity' = ent
    /\ i' = 0
    /\ fireclient' = CallerClient
    /\ result' = "nil"
    /\ backendCalls' = <<>>
    /\ refreshCalls' = <<>>
    /\ UNCHANGED env
    /\ UNCHANGED <<logVars, concVars>>
    /\ UNCHANGED auxVars

\* Mutant: the loop runs once more
LoopCondition_inclusive(k, n) == k <= n

\* Whether the loop condition i < firestoreRetriesNumber holds
LoopCondition(k, n) == k < n

\* One iteration of the loop up to its return, its continue or the refresh:
\* r is what the backend returns
Attempt(r) ==
    /\ pc = "loop"
    /\ LoopCondition(i, firestoreRetriesNumber)
    /\ backendCalls' = Append(backendCalls, [client |-> fireclient, err |-> r.err])
    \* doc, err := iter.Next() declares a new err inside the loop
    /\ err' = IF op = "iter" THEN err ELSE r.err
    /\ result' = IF op \in {"edit", "iter"} THEN result ELSE r.val
    /\ IF r.err = NilErr
       THEN /\ pc' = "done"
            /\ ret' = Returned(IF op = "edit" THEN "nil" ELSE r.val, NilErr)
            /\ UNCHANGED <<i, logs>>
       ELSE IF Retryable(op, r.err)
       THEN /\ logs' = logs \o RetryLog(op, collectionName, r.err)
            /\ ret' = ret
            /\ IF RefreshesOnRetry(op)
               THEN pc' = "refresh" /\ i' = i
               ELSE pc' = "loop" /\ i' = i + 1
       ELSE IF op = "iter" /\ r.err = IteratorDone
       THEN /\ pc' = "done"
            /\ ret' = Returned("nil", r.err)
            /\ UNCHANGED <<i, logs>>
       ELSE /\ pc' = "done"
            /\ ret' = Returned("nil", OtherError(op, collectionName, entityID, r.err))
            /\ UNCHANGED <<i, logs>>
    /\ UNCHANGED <<env, op, collectionName, entityID, entity, firestoreRetriesNumber,
                   fireclient, refreshCalls>>
    /\ UNCHANGED <<logVars, concVars>>
    /\ UNCHANGED auxVars

\* The retry branch from the refresh on: recreate the client, then return or continue
Refresh(appErr, clientErr) ==
    /\ pc = "refresh"
    /\ LET got == getFirestoreAppAndClientWithContext(appErr, clientErr,
                                                      CallerClient + Len(refreshCalls) + 1)
       IN  /\ refreshCalls' = Append(refreshCalls, got.err)
           /\ fireclient' = got.client
           /\ err' = got.err
           /\ IF got.err # NilErr
              THEN /\ pc' = "done"
                   /\ ret' = Returned(IF op = "delete" THEN result ELSE "nil",
                                      UpdatingError(op, firestoreRetriesNumber - i, got.err))
                   /\ i' = i
              ELSE /\ pc' = "loop"
                   /\ ret' = ret
                   /\ i' = i + 1
    /\ UNCHANGED <<env, op, collectionName, entityID, entity, firestoreRetriesNumber,
                   result, backendCalls, logs>>
    /\ UNCHANGED <<logVars, concVars>>
    /\ UNCHANGED auxVars

\* The statement after the loop: fmt.Errorf(..., err.Error())
ExitLoop ==
    /\ pc = "loop"
    /\ ~LoopCondition(i, firestoreRetriesNumber)
    /\ pc' = "done"
    /\ ret' = IF err = NilErr
              THEN Panicked
              ELSE Returned("nil", ExceedError(op, collectionName, entityID, err))
    /\ UNCHANGED <<env, op, collectionName, entityID, entity, firestoreRetriesNumber, i,
                   err, fireclient, result, backendCalls, refreshCalls, logs>>
    /\ UNCHANGED <<logVars, concVars>>
    /\ UNCHANGED auxVars

\* The caller takes the outcome (after a panic: the function instance starts anew)
Return ==
    /\ pc = "done"
    /\ pc' = "idle"
    /\ op' = "none"
    /\ collectionName' = ""
    /\ entityID' = ""
    /\ entity' = "nil"
    /\ firestoreRetriesNumber' = 0
    /\ i' = 0
    /\ err' = NilErr
    /\ fireclient' = NilClient
    /\ result' = "nil"
    /\ ret' = NoRet
    /\ backendCalls' = <<>>
    /\ refreshCalls' = <<>>
    /\ logs' = <<>>
    /\ UNCHANGED env
    /\ UNCHANGED <<logVars, concVars>>
    /\ UNCHANGED auxVars

Next ==
    \/ \E value \in EnvValues : SetEnv(value)
    \/ \E o \in Ops : \E a \in ArgsOf(o) : BeginCall(o, a[1], a[2], a[3])
    \/ \E r \in BackendResults : Attempt(r)
    \/ \E appErr \in {NilErr, AppError} :
          \E clientErr \in IF appErr = NilErr THEN {NilErr, ClientError} ELSE {NilErr} :
             Refresh(appErr, clientErr)
    \/ ExitLoop
    \/ Return

Spec == Init /\ [][Next]_vars

(***************************************************************************)
(* Vocabulary of the properties                                            *)
(***************************************************************************)

\* The text s starts with p: tells which format string built a message
HasPrefix(s, p) ==
    Len(s) >= Len(p) /\ SubSeq(s, 1, Len(p)) = p

\* The text s ends with p: the trailing %v of a format string printed p
HasSuffix(s, p) ==
    Len(s) >= Len(p) /\ SubSeq(s, Len(s) - Len(p) + 1, Len(s)) = p

InCall == pc # "idle"

\* The retry budget in effect for the call in progress
Budget == firestoreRetriesNumber

NumBackend == Len(backendCalls)

NumRefresh == Len(refreshCalls)

ValidArgs == Validate(op, collectionName, entityID) = NilErr

\* The error is the transient "transport is closing" message
IsClosing(e) == e.msg = ClosingTransportError

\* Retryable as section 4.1 of the specification classifies errors
SpecRetryable(e) ==
    \/ e.msg = ClosingTransportError
    \/ e.msg = UnavailableServiceError
    \/ Contains(e.msg, TemporarilyUnavailableText)

AllRefreshesSucceeded == \A k \in 1..NumRefresh : refreshCalls[k] = NilErr

ReturnedSuccess == ret.kind = "return" /\ ret.err = NilErr

ReturnedError == ret.kind = "return" /\ ret.err # NilErr

\* The returned error was built by the statement after the loop
ReturnedRetryExhausted ==
    /\ ReturnedError
    /\ \/ HasPrefix(ret.err.msg, <<"Exceed retries number for adding data to the '">>)
       \/ HasPrefix(ret.err.msg, <<"Exceed retries number for getting data from the '">>)
       \/ HasPrefix(ret.err.msg, <<"Exceed retries number for updating '">>)
       \/ HasPrefix(ret.err.msg, <<"Exceed retries number for deletion ">>)

\* The returned error is a new error whose text ends with the text of e
Wraps(e) ==
    /\ ReturnedError
    /\ ret.err # e
    /\ Len(ret.err.msg) > Len(e.msg)
    /\ HasSuffix(ret.err.msg, e.msg)

(***************************************************************************)
(* C1                                                                      *)
(***************************************************************************)

\* The backend has failed with the transient message on every invocation so far
BackendAlwaysClosing == \A k \in 1..NumBackend : IsClosing(backendCalls[k].err)

\* C1: a CRUD call with valid arguments and budget N >= 1, whose backend fails
\* with the transient message on every invocation while every refresh succeeds,
\* returns a RetryExhausted error after exactly N backend invocations.
C1_ExhaustedAfterBudget ==
    ( /\ pc = "done"
      /\ op \in CrudOps
      /\ ValidArgs
      /\ Budget >= 1
      /\ BackendAlwaysClosing
      /\ AllRefreshesSucceeded )
    => (ReturnedRetryExhausted /\ NumBackend = Budget)

(***************************************************************************)
(* C2                                                                      *)
(***************************************************************************)

\* C2: whatever the budget, the backend outcomes and the refresh outcomes are,
\* each of the five operations ends by returning to its caller; none panics.
C2_NoPanic == pc = "done" => ret.kind = "return"

(***************************************************************************)
(* C3                                                                      *)
(***************************************************************************)

\* The backend has behaved like the stub that fails with the transient message
\* on its first n - 1 invocations and succeeds from the n-th on
BackendClosingThenSuccess(n) ==
    \A k \in 1..NumBackend :
        IF k < n THEN IsClosing(backendCalls[k].err) ELSE backendCalls[k].err = NilErr

\* C3: a CRUD call with valid arguments and budget N >= 1, whose backend fails
\* with the "transport is closing" message exactly N-1 times and then succeeds
\* while every refresh succeeds, returns success after exactly N backend
\* invocations and exactly N-1 refreshes.
C3_SucceedsOnLastAttempt ==
    ( /\ pc = "done"
      /\ op \in CrudOps
      /\ ValidArgs
      /\ Budget >= 1
      /\ BackendClosingThenSuccess(Budget)
      /\ AllRefreshesSucceeded )
    => (ReturnedSuccess /\ NumBackend = Budget /\ NumRefresh = Budget - 1)

\* A delete that succeeded on the last attempt of a budget of at least 2
C3_Witness ==
    /\ pc = "done"
    /\ op = "delete"
    /\ ValidArgs
    /\ Budget >= 2
    /\ BackendClosingThenSuccess(Budget)
    /\ AllRefreshesSucceeded
    /\ NumBackend = Budget
    /\ NumRefresh = Budget - 1
    /\ ReturnedSuccess

(***************************************************************************)
(* C4                                                                      *)
(***************************************************************************)

\* The collection name is one of FirestoreCollectionNames
InAllowlist(name) == name \in {UsersCollection, PromoItemsCollection}

\* C4: a CRUD call whose collection name is not in FirestoreCollectionNames
\* returns an error with no backend invocation and no refresh, whatever the
\* other arguments and the budget are.
C4_UnknownCollectionRejected ==
    (InCall /\ op \in CrudOps /\ ~InAllowlist(collectionName))
    => (pc = "done" /\ ReturnedError /\ NumBackend = 0 /\ NumRefresh = 0)

\* A get of an unknown collection, with an identifier and a budget of 2 or more
C4_Witness ==
    /\ pc = "done"
    /\ op = "get"
    /\ ~InAllowlist(collectionName)
    /\ entityID # ""
    /\ Budget >= 2
    /\ ReturnedError
    /\ NumBackend = 0

(***************************************************************************)
(* C5                                                                      *)
(***************************************************************************)

\* The texts of the three "ID is required" errors
IDRequiredMessages ==
    { <<"entity ID is required field for get">>,
      <<"Entity ID is required field for edit">>,
      <<"Entity ID is required field for deletion">> }

\* C5: a get, edit or delete whose entity identifier is empty returns a
\* validation error with no backend invocation, for every collection name and
\* every budget.
C5_EmptyIDRejected ==
    (InCall /\ op \in {"get", "edit", "delete"} /\ entityID = "")
    => ( /\ pc = "done"
         /\ ReturnedError
         /\ ret.err.msg \in IDRequiredMessages
         /\ NumBackend = 0
         /\ NumRefresh = 0 )

\* A get without identifier on an allowed collection, with a budget of 2 or more
C5_Witness ==
    /\ pc = "done"
    /\ op = "get"
    /\ entityID = ""
    /\ InAllowlist(collectionName)
    /\ Budget >= 2
    /\ ret.err.msg \in IDRequiredMessages

(***************************************************************************)
(* C6                                                                      *)
(***************************************************************************)

\* The first backend invocation returned an error that is neither transient
\* nor the end-of-sequence sentinel
FirstErrorIsOther ==
    /\ NumBackend >= 1
    /\ backendCalls[1].err # NilErr
    /\ ~SpecRetryable(backendCalls[1].err)
    /\ backendCalls[1].err # IteratorDone

\* C6: with a budget N >= 1, when the first backend invocation returns an error
\* that is neither transient nor the end-of-sequence sentinel, each of the five
\* operations returns a wrapped error after exactly 1 backend invocation and no
\* refresh.
C6_OtherErrorIsFatal ==
    (InCall /\ Budget >= 1 /\ FirstErrorIsOther)
    => ( /\ pc = "done"
         /\ Wraps(backendCalls[1].err)
         /\ NumBackend = 1
         /\ NumRefresh = 0 )

\* An add with a budget of 2 or more whose first error holds the closing text
\* inside a longer message
C6_Witness ==
    /\ pc = "done"
    /\ op = "add"
    /\ Budget >= 2
    /\ FirstErrorIsOther
    /\ Contains(backendCalls[1].err.msg, ClosingTransportError)
    /\ Wraps(backendCalls[1].err)

(***************************************************************************)
(* C7                                                                      *)
(***************************************************************************)

LastBackendError == backendCalls[NumBackend].err

\* C7: in all five operations an error whose message equals the
\* closing-transport message or contains the service-temporarily-unavailable
\* text is retried after a connection refresh, never treated as fatal: once
\* the call is past such an error, a refresh has followed every backend
\* invocation.
C7_UniformClassification ==
    ( /\ pc \in {"loop", "done"}
      /\ NumBackend >= 1
      /\ LastBackendError # NilErr
      /\ SpecRetryable(LastBackendError) )
    => NumRefresh = NumBackend

(***************************************************************************)
(* C8                                                                      *)
(***************************************************************************)

\* C8: a call that used up its budget of N >= 1 on transient failures (every
\* refresh having succeeded) returns an error whose text carries the message
\* of the last error the backend returned, in all five operations and also
\* under the default budget of 1.
C8_ExhaustedReportsLastBackendError ==
    ( /\ pc = "done"
      /\ Budget >= 1
      /\ NumBackend = Budget
      /\ BackendAlwaysClosing
      /\ AllRefreshesSucceeded )
    => (ReturnedError /\ HasSuffix(ret.err.msg, LastBackendError.msg))

(***************************************************************************)
(* C9                                                                      *)
(***************************************************************************)

\* C9: at every point of a call, the number of backend invocations made so far
\* is at most the budget in effect, and is 0 when the budget is 0 or negative.
C9_AtMostBudgetInvocations ==
    InCall => NumBackend <= (IF Budget > 0 THEN Budget ELSE 0)

\* A call that has made as many invocations as its budget of 2 or more allows
C9_Witness ==
    /\ InCall
    /\ Budget >= 2
    /\ NumBackend = Budget

(***************************************************************************)
(* C10                                                                     *)
(***************************************************************************)

\* The text is an optional sign followed by one or more decimal digits
IsIntegerText(s) ==
    LET from == IF Len(s) > 0 /\ s[1] \in {"+", "-"} THEN 2 ELSE 1
    IN  /\ Len(s) >= from
        /\ \A k \in from..Len(s) :
              s[k] \in {"0", "1", "2", "3", "4", "5", "6", "7", "8", "9"}

\* Ways the model's environment spells the integer n
TextsOf(n) == {Itoa(n), <<"+">> \o Itoa(n), <<"0">> \o Itoa(n)}

\* The informational entries about the missing retry-count configuration
ConfigLogEntries ==
    { k \in 1..Len(logs) :
        /\ logs[k][3] = "info"
        /\ Contains(logs[k], <<"FIRESTORE_RETRIES_NUMBER is missing, was set to: ", "1">>) }

\* C10: when FIRESTORE_RETRIES_NUMBER is unset or does not parse as an integer,
\* each of the five operations runs with a budget of exactly 1 (at most one
\* backend invocation), records one informational log entry and does not fail
\* because of the configuration: it ends without a backend invocation only on
\* invalid arguments and succeeds when the backend does. The value is read at
\* every call: a call made while it parses uses the number it spells.
C10_UnparseableBudgetIsOne ==
    InCall =>
      IF IsIntegerText(env)
      THEN /\ env \in TextsOf(Budget)
           /\ ConfigLogEntries = {}
      ELSE /\ Budget = 1
           /\ NumBackend <= 1
           /\ Cardinality(ConfigLogEntries) = 1
           /\ (pc = "done" /\ NumBackend = 0) => (~ValidArgs /\ ReturnedError)
           /\ (NumBackend = 1 /\ backendCalls[1].err = NilErr)
                 => (pc = "done" /\ ReturnedSuccess)

\* A cursor advance that succeeded while the variable was set to a non-number
C10_Witness ==
    /\ pc = "done"
    /\ op = "iter"
    /\ env = <<"1", "x">>
    /\ Budget = 1
    /\ NumBackend = 1
    /\ Cardinality(ConfigLogEntries) = 1
    /\ ReturnedSuccess

(***************************************************************************)
(* C11                                                                     *)
(***************************************************************************)

\* The last connection refresh of the call failed
LastRefreshFailed == NumRefresh >= 1 /\ refreshCalls[NumRefresh] # NilErr

\* The text is the refresh-failure message naming n retries left
NamesRetriesLeft(msg, n) ==
    \E start \in {"Error updating fireclient (", "error updating fireclient ("} :
        HasPrefix(msg, <<start>> \o Itoa(n) \o <<" - retries left): ">>)

\* C11: in the four CRUD operations, when a connection refresh fails after a
\* transient backend error, the call returns an error at once, with no further
\* backend or refresh invocation, and the count named in that error is the
\* budget still remaining: the bound minus the backend invocations already made.
C11_RefreshFailureNamesRemaining ==
    (InCall /\ op \in CrudOps /\ LastRefreshFailed)
    => ( /\ pc = "done"
         /\ ReturnedError
         /\ NumRefresh = NumBackend
         /\ NamesRetriesLeft(ret.err.msg, Budget - NumBackend) )

(***************************************************************************)
(* C12                                                                     *)
(***************************************************************************)

\* C12: when iter.Next returns iterator.Done on any attempt,
\* firebaseDocumentIteratorWithRetry returns that same value, unwrapped, with a
\* nil document and makes no further backend invocation; every other error it
\* returns is a value distinct from the sentinel.
C12_DoneReturnedUnwrapped ==
    (InCall /\ op = "iter")
    => ( /\ \A k \in 1..NumBackend :
               backendCalls[k].err = IteratorDone
               => ( /\ k = NumBackend
                    /\ pc = "done"
                    /\ ret = Returned("nil", IteratorDone) )
         /\ (pc = "done" /\ ret.kind = "return" /\ ret.err = IteratorDone)
               => (NumBackend >= 1 /\ LastBackendError = IteratorDone) )

\* The sentinel came on the second attempt, after a transient failure
C12_Witness ==
    /\ pc = "done"
    /\ op = "iter"
    /\ NumBackend = 2
    /\ IsClosing(backendCalls[1].err)
    /\ LastBackendError = IteratorDone
    /\ ret = Returned("nil", IteratorDone)

(***************************************************************************)
(* C13                                                                     *)
(***************************************************************************)

\* The backend has failed on its first n invocations with the transient message
\* and succeeded on the next one
ClosingTimesThenSuccess(n) ==
    /\ NumBackend = n + 1
    /\ \A k \in 1..n : IsClosing(backendCalls[k].err)
    /\ backendCalls[n + 1].err = NilErr

C14_NilEntityRejected ==
    (InCall /\ op = "add" /\ entity = "nil")
    => (pc = "done" /\ ReturnedError /\ NumBackend = 0)

(***************************************************************************)
(* C15                                                                     *)
(***************************************************************************)

\* The session that the k-th connection refresh of a call returns
SessionOfRefresh(k) == CallerClient + k

\* C15: within one CRUD call every backend invocation after a successful
\* refresh uses the session that the most recent refresh returned; the handle
\* the caller holds is not changed by the call, so every call, also one that
\* follows a call with refreshes, starts on the caller's session.
C15_SessionPerCall ==
    (InCall /\ op \in CrudOps)
    => ( /\ \A k \in 1..NumBackend :
               backendCalls[k].client =
                   IF k = 1 THEN CallerClient ELSE SessionOfRefresh(k - 1)
         /\ (pc = "loop" /\ NumRefresh >= 1) => fireclient = SessionOfRefresh(NumRefresh)
         /\ (pc = "loop" /\ NumRefresh = 0) => fireclient = CallerClient )

\* An edit whose third invocation ran on the session of the second refresh
C15_Witness ==
    /\ pc = "done"
    /\ op = "edit"
    /\ NumBackend = 3
    /\ NumRefresh = 2
    /\ backendCalls[1].client = CallerClient
    /\ backendCalls[3].client = SessionOfRefresh(2)
    /\ backendCalls[3].client # backendCalls[2].client
    /\ ReturnedSuccess

(***************************************************************************)
(* C20                                                                     *)
(***************************************************************************)

OutcomeSuccess == ReturnedSuccess

OutcomeValidationError == ReturnedError /\ NumBackend = 0 /\ ~ValidArgs

OutcomeEndOfSequence == ret.kind = "return" /\ ret.err = IteratorDone

OutcomeRefreshFailure == ReturnedError /\ LastRefreshFailed

\* an error returned from inside the loop, wrapping what the backend returned
OutcomeFatalBackendError ==
    /\ ReturnedError
    /\ NumBackend >= 1
    /\ ~LastRefreshFailed
    /\ ret.err # IteratorDone
    /\ i < Budget
    /\ Wraps(LastBackendError)

\* an error returned by the statement after the loop
OutcomeRetriesExhausted == ReturnedError /\ ValidArgs /\ i >= Budget

\* How many of the six terminal outcomes the state shows
OutcomesShown ==
    Cardinality({ k \in 1..6 :
        \/ k = 1 /\ OutcomeSuccess
        \/ k = 2 /\ OutcomeValidationError
        \/ k = 3 /\ OutcomeEndOfSequence
        \/ k = 4 /\ OutcomeFatalBackendError
        \/ k = 5 /\ OutcomeRefreshFailure
        \/ k = 6 /\ OutcomeRetriesExhausted })

\* C20: every call of the five operations ends after at most budget loop
\* iterations in exactly one terminal outcome: success, validation error,
\* end-of-sequence, fatal backend error, refresh failure or retries exhausted.
C20_ExactlyOneOutcome ==
    pc = "done"
    => ( /\ OutcomesShown = 1
         /\ NumBackend <= (IF Budget > 0 THEN Budget ELSE 0)
         /\ i <= (IF Budget > 0 THEN Budget ELSE 0) )

(***************************************************************************)
(* logv2: the CloudLogger of src/unnamed/part_000                          *)
(***************************************************************************)

\* logging.Severity: the constants of cloud.google.com/go/logging by name
SeverityValue ==
    [Default |-> 0, Debug |-> 100, Info |-> 200, Notice |-> 300, Warning |-> 400,
     Error |-> 500, Critical |-> 600, Alert |-> 700, Emergency |-> 800]

Severities == DOMAIN SeverityValue

\* The severity each method of CloudLogger and RequestLogger logs with
LogMethods == {"Debug", "Info", "Notice", "Warning", "Error", "Critical", "Emergency"}

\* options := Options{LogName: "application", ..., NotifyMinSeverity: logging.Error}
DefaultOptions == [ZeroOptions EXCEPT !.NotifyMinSeverity = "Error"]

WithProjectID(o, id) == [o EXCEPT !.ProjectID = id]

WithNotifier(o, h, min) == [o EXCEPT !.Hook = h, !.NotifyMinSeverity = min]

WithStdoutOnly(o) == [o EXCEPT !.ForceStdout = TRUE]

\* An Option written by the caller that sets only the hook
WithHookOnly(o, h) == [o EXCEPT !.Hook = h]

\* for _, f := range opts { f(&options) } for the options the input names
ApplyOptions(in) ==
    LET o1 == IF in.projectID # "" THEN WithProjectID(DefaultOptions, in.projectID)
              ELSE DefaultOptions
        o2 == CASE in.notifier.kind = "WithNotifier" ->
                     WithNotifier(o1, in.notifier.hook, in.notifier.min)
                [] in.notifier.kind = "hookOnly" -> WithHookOnly(o1, in.notifier.hook)
                [] OTHER -> o1
    IN  IF in.stdoutOnly THEN WithStdoutOnly(o2) ELSE o2

\* The project-ID detection of New: detect is what detectProjectID returns
DetectedOptions(o, detect) ==
    IF o.ProjectID = "" /\ ~o.ForceStdout
    THEN IF detect.err # NilErr
         THEN [o EXCEPT !.ForceStdout = TRUE]
         ELSE [o EXCEPT !.ProjectID = detect.id]
    ELSE o

\* Mutant: the initialisation creates the client in stdout mode too
NewLogger_alwaysClient(in) ==
    LET o == DetectedOptions(ApplyOptions(in), in.detect)
    IN  IF in.newClient # NilErr
        THEN [logger |-> [built |-> TRUE, opts |-> o, client |-> "nil", logger |-> "nil",
                          initErr |-> in.newClient, closed |-> FALSE, args |-> in],
              created |-> 0]
        ELSE [logger |-> [built |-> TRUE, opts |-> o, client |-> "client", logger |-> "logger",
                          initErr |-> NilErr, closed |-> FALSE, args |-> in],
              created |-> 1]

\* New: the CloudLogger it returns (with initErr, the error it returns) and the
\* number of Cloud Logging clients it created; in.newClient is the error of
\* logging.NewClient
NewLogger(in) ==
    LET o == DetectedOptions(ApplyOptions(in), in.detect)
    IN  IF o.ForceStdout
        THEN [logger |-> [built |-> TRUE, opts |-> o, client |-> "nil", logger |-> "nil",
                          initErr |-> NilErr, closed |-> FALSE, args |-> in],
              created |-> 0]
        ELSE IF in.newClient # NilErr
        THEN [logger |-> [built |-> TRUE, opts |-> o, client |-> "nil", logger |-> "nil",
                          initErr |-> in.newClient, closed |-> FALSE, args |-> in],
              created |-> 0]
        ELSE [logger |-> [built |-> TRUE, opts |-> o, client |-> "client", logger |-> "logger",
                          initErr |-> NilErr, closed |-> FALSE, args |-> in],
              created |-> 1]

\* extractExecutionID: req is "nil", a request without the headers, or one
\* that carries an execution ID
extractExecutionID(req) == IF req = "withExecutionID" THEN "exec-1" ELSE ""

\* Mutant: only the forced mode writes to stdout
UsesStdout_forcedOnly(c) == c.opts.ForceStdout

\* if c.client == nil || c.logger == nil || c.opts.ForceStdout
UsesStdout(c) == c.client = "nil" \/ c.logger = "nil" \/ c.opts.ForceStdout

\* Mutant: the threshold itself does not notify
ShouldNotify_above(c, sev) ==
    c.opts.Hook # "nil" /\ SeverityValue[sev] > SeverityValue[c.opts.NotifyMinSeverity]

\* if c.opts.Hook != nil && sev >= c.opts.NotifyMinSeverity
ShouldNotify(c, sev) ==
    c.opts.Hook # "nil" /\ SeverityValue[sev] >= SeverityValue[c.opts.NotifyMinSeverity]

\* What a log call does, in order
LogEvent(kind, sev, execID) == [kind |-> kind, severity |-> sev, executionID |-> execID]

\* Mutant: the panic of the hook is not recovered
safeNotify_noRecover(sev, execID, hookPanics) ==
    IF hookPanics
    THEN <<LogEvent("notify", sev, execID), LogEvent("panic", sev, execID)>>
    ELSE <<LogEvent("notify", sev, execID)>>

\* safeNotify: the call of the hook, and the recover when it panics
safeNotify(sev, execID, hookPanics) ==
    IF hookPanics
    THEN <<LogEvent("notify", sev, execID), LogEvent("recover", sev, execID)>>
    ELSE <<LogEvent("notify", sev, execID)>>

\* CloudLogger.log: the entry goes to stdout (as JSON) or to the Cloud Logging
\* logger, then the hook is notified
logEvents(c, sev, req, hookPanics) ==
    LET execID == extractExecutionID(req)
    IN  <<LogEvent(IF UsesStdout(c) THEN "stdout-json" ELSE "cloud", sev, execID)>>
        \o (IF ShouldNotify(c, sev) THEN safeNotify(sev, execID, hookPanics) ELSE <<>>)

\* Whether a panic leaves the log call
Propagates(events) == \E k \in 1..Len(events) : events[k].kind = "panic"

\* What New is called with and what its collaborators return
Notifiers ==
    {[kind |-> "none", hook |-> "nil", min |-> "Default"]}
        \cup {[kind |-> "WithNotifier", hook |-> h, min |-> m] :
                 h \in {"nil", "hook"}, m \in Severities}
        \cup {[kind |-> "hookOnly", hook |-> "hook", min |-> "Default"]}

DetectResults ==
    { [id |-> "detected-project", err |-> NilErr],
      [id |-> "", err |-> NewError("logv2", <<"GOOGLE_CLOUD_PROJECT not set and not on GCE">>)] }

NewClientErrors == {NilErr, NewError("logging", <<"could not create the client">>)}

NewInputs ==
    [projectID : {"", "given-project"}, stdoutOnly : BOOLEAN, notifier : Notifiers,
     detect : DetectResults, newClient : NewClientErrors]

Requests == {"nil", "noHeaders", "withExecutionID"}

\* New(ctx, opts...)
New(in) ==
    /\ ~cl.built
    /\ cl' = NewLogger(in).logger
    /\ clientsCreated' = clientsCreated + NewLogger(in).created
    /\ lastLog' = NoLog
    /\ UNCHANGED <<env, pc, op, collectionName, entityID, entity, firestoreRetriesNumber,
                   i, err, fireclient, result, ret, backendCalls, refreshCalls, logs>>
    /\ UNCHANGED concVars
    /\ UNCHANGED auxVars

\* c.Debug(ctx, r, ...) ... c.Emergency(ctx, r, ...) and the same methods of the
\* RequestLogger that ForRequest returns, which call c.log with its ctx and req
Log(method, req, hookPanics) ==
    /\ cl.built
    /\ lastLog' = [sev |-> method,
                   events |-> logEvents(cl, method, req, hookPanics),
                   returned |-> ~Propagates(logEvents(cl, method, req, hookPanics))]
    /\ UNCHANGED <<cl, clientsCreated>>
    /\ UNCHANGED <<env, pc, op, collectionName, entityID, entity, firestoreRetriesNumber,
                   i, err, fireclient, result, ret, backendCalls, refreshCalls, logs>>
    /\ UNCHANGED concVars
    /\ UNCHANGED auxVars

\* c.Close(): flush and close the client if there is one
Close ==
    /\ cl.built
    /\ ~cl.closed
    /\ cl' = [cl EXCEPT !.closed = TRUE]
    /\ UNCHANGED <<clientsCreated, lastLog>>
    /\ UNCHANGED <<env, pc, op, collectionName, entityID, entity, firestoreRetriesNumber,
                   i, err, fireclient, result, ret, backendCalls, refreshCalls, logs>>
    /\ UNCHANGED concVars
    /\ UNCHANGED auxVars

NextLog ==
    \/ \E in \in NewInputs : New(in)
    \/ \E method \in LogMethods : \E req \in Requests : \E hookPanics \in BOOLEAN :
          Log(method, req, hookPanics)
    \/ Close

SpecLog == Init /\ [][NextLog]_vars

(***************************************************************************)
(* Properties of the CloudLogger                                           *)
(***************************************************************************)

CountKind(events, kinds) == Len(SelectSeq(events, LAMBDA e : e.kind \in kinds))

DetectionFailed(c) ==
    c.args.projectID = "" /\ ~c.args.stdoutOnly /\ c.args.detect.err # NilErr

\* C17: a CloudLogger creates at most one Cloud Logging client, in New, and
\* none in stdout mode; after any sequence of log calls the number of clients
\* created is still the number New created.
C17_AtMostOneClient ==
    /\ clientsCreated <= 1
    /\ cl.built /\ cl.opts.ForceStdout => clientsCreated = 0
    /\ ~cl.built => clientsCreated = 0
    /\ lastLog.returned => clientsCreated = (IF cl.client = "nil" THEN 0 ELSE 1)

C17_Witness ==
    /\ clientsCreated = 1
    /\ lastLog.returned
    /\ CountKind(lastLog.events, {"cloud"}) = 1

C19_NotifyAtOrAboveThreshold ==
    lastLog.returned =>
        /\ CountKind(lastLog.events, {"notify"}) =
              (IF /\ cl.opts.Hook # "nil"
                  /\ SeverityValue[lastLog.sev] >= SeverityValue[cl.opts.NotifyMinSeverity]
               THEN 1 ELSE 0)
        /\ cl.args.notifier.kind # "WithNotifier" =>
              /\ cl.opts.NotifyMinSeverity = "Error"
              /\ lastLog.sev \in {"Debug", "Info", "Notice", "Warning"} =>
                    CountKind(lastLog.events, {"notify"}) = 0
              /\ cl.opts.Hook # "nil" /\ lastLog.sev \in {"Error", "Critical", "Emergency"} =>
                    CountKind(lastLog.events, {"notify"}) = 1

C19_Witness ==
    /\ lastLog.returned
    /\ cl.opts.Hook # "nil"
    /\ cl.opts.NotifyMinSeverity = "Warning"
    /\ lastLog.sev = "Warning"
    /\ CountKind(lastLog.events, {"notify"}) = 1

(***************************************************************************)
(* Concurrent CRUD calls: every call runs the code of the single call on   *)
(* its own parameters and local variables                                  *)
(***************************************************************************)

\* The locals of a call after the code before the loop (as BeginCall)
CallBegun(o, coll, id, value) ==
    LET cfg == ReadRetriesNumber(value)
        bad == Validate(o, coll, id)
    IN  [pc |-> IF bad # NilErr THEN "done" ELSE "loop",
         op |-> o, collectionName |-> coll, entityID |-> id,
         firestoreRetriesNumber |-> cfg.n, i |-> 0, err |-> cfg.err,
         fireclient |-> CallerClient, result |-> "nil",
         ret |-> IF bad # NilErr THEN Returned("nil", bad) ELSE NoRet,
         backendCalls |-> <<>>, refreshCalls |-> <<>>]

\* The locals of a call after one iteration in which the backend returned r
\* (as Attempt)
CallAttempted(s, r) ==
    LET called == [s EXCEPT !.backendCalls = Append(@, [client |-> s.fireclient, err |-> r.err]),
                            !.err = IF s.op = "iter" THEN @ ELSE r.err,
                            !.result = IF s.op \in {"edit", "iter"} THEN @ ELSE r.val]
    IN  IF r.err = NilErr
        THEN [called EXCEPT !.pc = "done",
                            !.ret = Returned(IF s.op = "edit" THEN "nil" ELSE r.val, NilErr)]
        ELSE IF Retryable(s.op, r.err)
        THEN IF RefreshesOnRetry(s.op)
             THEN [called EXCEPT !.pc = "refresh"]
             ELSE [called EXCEPT !.i = @ + 1]
        ELSE IF s.op = "iter" /\ r.err = IteratorDone
        THEN [called EXCEPT !.pc = "done", !.ret = Returned("nil", r.err)]
        ELSE [called EXCEPT !.pc = "done",
                            !.ret = Returned("nil", OtherError(s.op, s.collectionName,
                                                               s.entityID, r.err))]

\* The locals of a call after the refresh of its retry branch (as Refresh)
CallRefreshed(s, appErr, clientErr) ==
    LET got == getFirestoreAppAndClientWithContext(appErr, clientErr,
                                                   CallerClient + Len(s.refreshCalls) + 1)
        refreshed == [s EXCEPT !.refreshCalls = Append(@, got.err),
                               !.fireclient = got.client,
                               !.err = got.err]
    IN  IF got.err # NilErr
        THEN [refreshed EXCEPT !.pc = "done",
                               !.ret = Returned(IF s.op = "delete" THEN s.result ELSE "nil",
                                                UpdatingError(s.op,
                                                              s.firestoreRetriesNumber - s.i,
                                                              got.err))]
        ELSE [refreshed EXCEPT !.pc = "loop", !.i = @ + 1]

\* The locals of a call after the statement that follows the loop (as ExitLoop)
CallExited(s) ==
    [s EXCEPT !.pc = "done",
              !.ret = IF s.err = NilErr
                      THEN Panicked
                      ELSE Returned("nil", ExceedError(s.op, s.collectionName,
                                                       s.entityID, s.err))]

\* Mutant: the calls keep their attempt counter and client in one place
LocalsOf_shared(c) == 1

\* Where call c keeps its parameters and local variables: in its own frame
LocalsOf(c) == c

\* The operations that run concurrently and what they are given
ConcOps == {"add", "delete"}

ConcArgs == {<<UsersCollection, "id1">>, <<"orders", "id1">>}

ConcEnvValues == {<<>>, Itoa(MaxRetries)}

ConcBackendResults ==
    { [val |-> "doc", err |-> NilErr],
      [val |-> "nil", err |-> NewError("backend", ClosingTransportError)],
      [val |-> "nil", err |-> NewError("backend", <<"rpc error: code = ", "NotFound desc = ", "not found">>)] }

AttemptStep(r) == [kind |-> "attempt", r |-> r, appErr |-> NilErr, clientErr |-> NilErr]

RefreshStep(appErr, clientErr) ==
    [kind |-> "refresh", r |-> [val |-> "nil", err |-> NilErr],
     appErr |-> appErr, clientErr |-> clientErr]

ExitStep ==
    [kind |-> "exit", r |-> [val |-> "nil", err |-> NilErr],
     appErr |-> NilErr, clientErr |-> NilErr]

Observe(c, step) == [observed EXCEPT ![c].steps = Append(@, step)]

\* Call c enters one of the CRUD functions
CBegin(c, o, coll, id) ==
    /\ ~observed[c].begun
    /\ calls' = [calls EXCEPT ![LocalsOf(c)] = CallBegun(o, coll, id, env)]
    /\ observed' = [observed EXCEPT ![c] =
                       [begun |-> TRUE,
                        start |-> [o |-> o, coll |-> coll, id |-> id, value |-> env],
                        steps |-> <<>>]]
    /\ UNCHANGED <<env, pc, op, collectionName, entityID, entity, firestoreRetriesNumber,
                   i, err, fireclient, result, ret, backendCalls, refreshCalls, logs>>
    /\ UNCHANGED logVars
    /\ UNCHANGED auxVars

\* Call c runs one iteration of its loop
CAttempt(c, r) ==
    /\ observed[c].begun
    /\ calls[LocalsOf(c)].pc = "loop"
    /\ LoopCondition(calls[LocalsOf(c)].i, calls[LocalsOf(c)].firestoreRetriesNumber)
    /\ calls' = [calls EXCEPT ![LocalsOf(c)] = CallAttempted(@, r)]
    /\ observed' = Observe(c, AttemptStep(r))
    /\ UNCHANGED <<env, pc, op, collectionName, entityID, entity, firestoreRetriesNumber,
                   i, err, fireclient, result, ret, backendCalls, refreshCalls, logs>>
    /\ UNCHANGED logVars
    /\ UNCHANGED auxVars

\* Call c recreates its client
CRefresh(c, appErr, clientErr) ==
    /\ observed[c].begun
    /\ calls[LocalsOf(c)].pc = "refresh"
    /\ calls' = [calls EXCEPT ![LocalsOf(c)] = CallRefreshed(@, appErr, clientErr)]
    /\ observed' = Observe(c, RefreshStep(appErr, clientErr))
    /\ UNCHANGED <<env, pc, op, collectionName, entityID, entity, firestoreRetriesNumber,
                   i, err, fireclient, result, ret, backendCalls, refreshCalls, logs>>
    /\ UNCHANGED logVars
    /\ UNCHANGED auxVars

\* Call c leaves its loop with the budget used up
CExitLoop(c) ==
    /\ observed[c].begun
    /\ calls[LocalsOf(c)].pc = "loop"
    /\ ~LoopCondition(calls[LocalsOf(c)].i, calls[LocalsOf(c)].firestoreRetriesNumber)
    /\ calls' = [calls EXCEPT ![LocalsOf(c)] = CallExited(@)]
    /\ observed' = Observe(c, ExitStep)
    /\ UNCHANGED <<env, pc, op, collectionName, entityID, entity, firestoreRetriesNumber,
                   i, err, fireclient, result, ret, backendCalls, refreshCalls, logs>>
    /\ UNCHANGED logVars
    /\ UNCHANGED auxVars

\* The caller of call c takes the outcome
CReturn(c) ==
    /\ observed[c].begun
    /\ calls[LocalsOf(c)].pc = "done"
    /\ calls' = [calls EXCEPT ![LocalsOf(c)] = IdleCall]
    /\ observed' = [observed EXCEPT ![c] = NothingObserved]
    /\ UNCHANGED <<env, pc, op, collectionName, entityID, entity, firestoreRetriesNumber,
                   i, err, fireclient, result, ret, backendCalls, refreshCalls, logs>>
    /\ UNCHANGED logVars
    /\ UNCHANGED auxVars

NextConc ==
    \/ \E value \in ConcEnvValues : SetEnv(value)
    \/ \E c \in Calls : \E o \in ConcOps : \E a \in ConcArgs : CBegin(c, o, a[1], a[2])
    \/ \E c \in Calls : \E r \in ConcBackendResults : CAttempt(c, r)
    \/ \E c \in Calls : \E appErr \in {NilErr, AppError} :
          \E clientErr \in IF appErr = NilErr THEN {NilErr, ClientError} ELSE {NilErr} :
             CRefresh(c, appErr, clientErr)
    \/ \E c \in Calls : CExitLoop(c)
    \/ \E c \in Calls : CReturn(c)

SpecConc == Init /\ [][NextConc]_vars

(***************************************************************************)
(* Properties of concurrent calls                                          *)
(***************************************************************************)

ApplyStep(s, step) ==
    CASE step.kind = "attempt" -> CallAttempted(s, step.r)
      [] step.kind = "refresh" -> CallRefreshed(s, step.appErr, step.clientErr)
      [] step.kind = "exit"    -> CallExited(s)

RECURSIVE RunSteps(_, _)
RunSteps(s, steps) ==
    IF steps = <<>> THEN s ELSE RunSteps(ApplyStep(s, Head(steps)), Tail(steps))

\* The same call alone: the code run on what the call was given
Alone(obs) ==
    RunSteps(CallBegun(obs.start.o, obs.start.coll, obs.start.id, obs.start.value), obs.steps)

SecretAttempts == 2

\* Mutant: one attempt more
SecretLoopCondition_inclusive(k) == k <= SecretAttempts

SecretLoopCondition(k) == k < SecretAttempts

\* What getSecretRaw returns: the payload, or nil and the error of
\* secretmanager.NewClient or of AccessSecretVersion
SecretRawResults ==
    { [val |-> "refresh-token", err |-> NilErr],
      [val |-> "", err |-> NilErr],
      [val |-> "", err |-> NewError("secretmanager", <<"could not create the client">>)],
      [val |-> "", err |-> NewError("secretmanager", <<"rpc error: code = ">> \o UnavailableServiceError)],
      [val |-> "", err |-> NewError("secretmanager", <<"rpc error: code = ", "PermissionDenied">>)] }

SecretNames == {"ie-refresh-token"}

\* The locals of GetSecret when it enters its loop
SecretCallBegun(caller, keyName) ==
    [NoSecretCall EXCEPT !.pc = "loop", !.caller = caller, !.keyName = keyName]

\* GetSecret is called by a user of the package
GetSecretBegin(keyName) ==
    /\ secret.pc = "idle"
    /\ ie.pc = "idle"
    /\ secret' = SecretCallBegun("direct", keyName)
    /\ UNCHANGED <<ie, store, now, authz>>
    /\ UNCHANGED <<firestoreVars, logVars, concVars>>

\* One iteration of the loop of GetSecret: r is what getSecretRaw returns
GetSecretAttempt(r) ==
    /\ secret.pc = "loop"
    /\ SecretLoopCondition(secret.i)
    /\ secret' = [secret EXCEPT
                     !.rawCalls = Append(@, r),
                     !.secretBytes = r.val,
                     !.err = r.err,
                     !.pc = IF r.err = NilErr THEN "done" ELSE "loop",
                     !.ret = IF r.err = NilErr THEN Returned(r.val, NilErr) ELSE @,
                     !.i = IF r.err = NilErr THEN @ ELSE @ + 1]
    /\ UNCHANGED <<ie, store, now, authz>>
    /\ UNCHANGED <<firestoreVars, logVars, concVars>>

\* return "", err
GetSecretExit ==
    /\ secret.pc = "loop"
    /\ ~SecretLoopCondition(secret.i)
    /\ secret' = [secret EXCEPT !.pc = "done", !.ret = Returned("", secret.err)]
    /\ UNCHANGED <<ie, store, now, authz>>
    /\ UNCHANGED <<firestoreVars, logVars, concVars>>

\* The user of the package takes the result
GetSecretReturn ==
    /\ secret.pc = "done"
    /\ secret.caller = "direct"
    /\ secret' = NoSecretCall
    /\ UNCHANGED <<ie, store, now, authz>>
    /\ UNCHANGED <<firestoreVars, logVars, concVars>>

(***************************************************************************)
(* getIEAccessToken and renewImprintEngineAccessToken                      *)
(* (src/logv2/README.md)                                                   *)
(***************************************************************************)

\* How far the clock runs
MaxClock == 2

\* time.Hour * time.Duration(20), in hours
TokenLifetimeHours == 20

\* t.Before(u)
Before(t, u) == t < u

\* How a call of GetEntityFromFirestore or EditEntityInFirestore ends: the
\* functions of firebasefunctions.go return nil, return an error, or panic
\* when the retries are used up after a successful refresh
StorageOutcomes == {"ok", "error", "panic"}

StorageError == Errorf(<<"unsuccessful storage operation">>)

\* What the POST to IMPRINT_ENGINE_AUTH_URL and the reading of its response
\* come to: a token, or one of the errors of renewImprintEngineAccessToken
HttpResults ==
    { [val |-> "new-token-a", err |-> NilErr],
      [val |-> "new-token-b", err |-> NilErr],
      [val |-> "", err |-> Errorf(<<"failed to send request. Error: ", "connection refused">>)],
      [val |-> "", err |-> NewError("errors.New", <<"failed to get IE access token">>)],
      [val |-> "", err |-> Errorf(<<"failed to unmarshal response body. Error: ", "unexpected end of JSON input">>)] }

LoadError(e) == Errorf(<<"failed to get secretDataModel. Error: ">> \o e.msg)

RefreshTokenError(e) ==
    Errorf(<<"failed to get refresh token from sercet manager. Error: ">> \o e.msg)

RenewError(e) == Errorf(<<"failed to get Imprint Engine access token. Error: ">> \o e.msg)

UpdateError(e) == Errorf(<<"failed to update FCShippingSecretData. Error: ">> \o e.msg)

\* secretDataModel.TokenExpirationDate.Before(time.Now())
NeedsRenewal(expiration, t) == Before(expiration, t)

\* The clock advances
Tick ==
    /\ now < MaxClock
    /\ now' = now + 1
    /\ UNCHANGED <<secret, ie, store, authz>>
    /\ UNCHANGED <<firestoreVars, logVars, concVars>>

\* getIEAccessToken up to the test: getShippingSecretDataModel reads the document
IELoad(outcome) ==
    /\ ie.pc = "idle"
    /\ secret.pc = "idle"
    /\ ie' = CASE outcome = "ok" -> [NoIECall EXCEPT !.pc = "check", !.model = store]
               [] outcome = "error" ->
                    [NoIECall EXCEPT !.pc = "done",
                                     !.ret = Returned("", LoadError(StorageError))]
               [] outcome = "panic" -> [NoIECall EXCEPT !.pc = "done", !.ret = Panicked]
    /\ UNCHANGED <<secret, store, now, authz>>
    /\ UNCHANGED <<firestoreVars, logVars, concVars>>

\* if secretDataModel.TokenExpirationDate.Before(time.Now()): return the stored
\* token, or call renewImprintEngineAccessToken, which begins with GetSecret
IECheck ==
    /\ ie.pc = "check"
    /\ IF NeedsRenewal(ie.model.TokenExpirationDate, now)
       THEN /\ ie' = [ie EXCEPT !.pc = "renew",
                                !.checked = [done |-> TRUE, at |-> now,
                                            expiration |-> ie.model.TokenExpirationDate]]
            /\ secret' = SecretCallBegun("renew", "ie-refresh-token")
       ELSE /\ ie' = [ie EXCEPT !.pc = "done",
                                !.checked = [done |-> TRUE, at |-> now,
                                            expiration |-> ie.model.TokenExpirationDate],
                                !.ret = Returned(ie.model.AccessToken, NilErr)]
            /\ UNCHANGED secret
    /\ UNCHANGED <<store, now, authz>>
    /\ UNCHANGED <<firestoreVars, logVars, concVars>>

\* renewImprintEngineAccessToken after GetSecret returned: r is what the request
\* to the renewal endpoint comes to; then getIEAccessToken takes the result
IERenew(r) ==
    /\ ie.pc = "renew"
    /\ secret.pc = "done"
    /\ secret.caller = "renew"
    /\ LET renewed == IF secret.ret.err # NilErr
                      THEN [val |-> "", err |-> RefreshTokenError(secret.ret.err),
                            posted |-> FALSE]
                      ELSE [val |-> r.val, err |-> r.err, posted |-> TRUE]
       IN  ie' = IF renewed.err # NilErr
                 THEN [ie EXCEPT !.pc = "done",
                                 !.renewals = Append(@, renewed),
                                 !.ret = Returned("", RenewError(renewed.err))]
                 ELSE [ie EXCEPT !.pc = "stamp",
                                 !.renewals = Append(@, renewed),
                                 !.newToken = renewed.val,
                                 !.model.AccessToken = renewed.val]
    /\ secret' = NoSecretCall
    /\ UNCHANGED <<store, now, authz>>
    /\ UNCHANGED <<firestoreVars, logVars, concVars>>

\* secretDataModel.TokenExpirationDate = time.Now().Add(20 hours), then
\* EditEntityInFirestore writes the document
IEWrite(outcome) ==
    /\ ie.pc = "stamp"
    /\ LET doc == [ie.model EXCEPT !.TokenExpirationDate = now + TokenLifetimeHours]
       IN  /\ ie' = [ie EXCEPT
                        !.pc = "done",
                        !.model = doc,
                        !.writes = Append(@, [doc |-> doc, outcome |-> outcome, at |-> now]),
                        !.ret = CASE outcome = "ok" -> Returned(ie.newToken, NilErr)
                                  [] outcome = "error" ->
                                       Returned("", UpdateError(StorageError))
                                  [] outcome = "panic" -> Panicked]
           /\ store' = IF outcome = "ok" THEN doc ELSE store
    /\ UNCHANGED <<secret, now, authz>>
    /\ UNCHANGED <<firestoreVars, logVars, concVars>>

\* The caller takes the result
IEReturn ==
    /\ ie.pc = "done"
    /\ ie' = NoIECall
    /\ UNCHANGED <<secret, store, now, authz>>
    /\ UNCHANGED <<firestoreVars, logVars, concVars>>

NextSecret ==
    \/ \E keyName \in SecretNames : GetSecretBegin(keyName)
    \/ \E r \in SecretRawResults : GetSecretAttempt(r)
    \/ GetSecretExit
    \/ GetSecretReturn
    \/ Tick
    \/ \E outcome \in StorageOutcomes : IELoad(outcome)
    \/ IECheck
    \/ \E r \in HttpResults : IERenew(r)
    \/ \E outcome \in StorageOutcomes : IEWrite(outcome)
    \/ IEReturn

SpecSecret == Init /\ [][NextSecret]_vars

(***************************************************************************)
(* Properties of GetSecret and getIEAccessToken                            *)
(***************************************************************************)

\* C21: GetSecret invokes the secret backend at most twice; it returns the
\* value of the first successful attempt and makes no attempt after it; when
\* both attempts fail it returns the empty string and the error of the second;
\* after a first failure of any kind it tries again.
C21_GetSecretAtMostTwoAttempts ==
    LET n == Len(secret.rawCalls)
    IN  /\ n <= 2
        /\ \A k \in 1..(n - 1) : secret.rawCalls[k].err # NilErr
        /\ n = 1 /\ secret.rawCalls[1].err # NilErr => secret.pc = "loop"
        /\ secret.pc = "done" =>
              /\ n >= 1
              /\ IF secret.rawCalls[n].err = NilErr
                 THEN secret.ret = Returned(secret.rawCalls[n].val, NilErr)
                 ELSE /\ n = 2
                      /\ secret.ret = Returned("", secret.rawCalls[2].err)

C21_Witness ==
    /\ secret.pc = "done"
    /\ secret.caller = "direct"
    /\ Len(secret.rawCalls) = 2
    /\ ~Contains(secret.rawCalls[1].err.msg, UnavailableServiceError)
    /\ secret.rawCalls[1].err # NilErr
    /\ secret.rawCalls[2].err = NilErr
    /\ secret.ret = Returned("refresh-token", NilErr)

ReturnedErrorNoToken(r) == r.kind = "return" /\ r.err # NilErr /\ r.val = ""

\* The call that found the token valid: the stored token, no renewal, no write
IEValidTokenCase ==
    /\ ie.pc = "done"
    /\ ie.ret = Returned(store.AccessToken, NilErr)
    /\ ie.renewals = <<>>
    /\ ie.writes = <<>>
    /\ secret = NoSecretCall

\* The call that found the token expired and is over: one renewal; when it
\* failed, an error and no write; when it succeeded, one write of the new
\* token expiring 20 hours after the time of the write, and the new token if
\* the write succeeded, an error and no token if it failed
IEExpiredTokenCase ==
    /\ Len(ie.renewals) = 1
    /\ IF ie.renewals[1].err # NilErr
       THEN /\ ie.writes = <<>>
            /\ ReturnedErrorNoToken(ie.ret)
       ELSE /\ Len(ie.writes) = 1
            /\ ie.writes[1].doc = [AccessToken |-> ie.renewals[1].val,
                                   TokenExpirationDate |-> ie.writes[1].at + 20]
            /\ IF ie.writes[1].outcome = "ok"
               THEN /\ ie.ret = Returned(ie.renewals[1].val, NilErr)
                    /\ store = ie.writes[1].doc
               ELSE ReturnedErrorNoToken(ie.ret)

MaxHeaderLen == 4

StatusOK == 200

StatusUnauthorized == 401

StatusInternalServerError == 500

\* The pieces a header is made of: white space and text without white space
Whitespace == {" ", "\t"}

HeaderPieces == Whitespace \cup {"Bearer", "bearer", "tok"}

RECURSIVE SeqsUpTo(_, _)
SeqsUpTo(S, n) ==
    IF n = 0 THEN {<<>>}
    ELSE LET shorter == SeqsUpTo(S, n - 1)
         IN  shorter \cup {Append(s, x) : s \in shorter, x \in S}

AuthHeaders == SeqsUpTo(HeaderPieces, MaxHeaderLen)

\* strings.Fields: the maximal runs of text without white space
RECURSIVE FieldsFrom(_, _, _)
FieldsFrom(s, field, fields) ==
    IF s = <<>>
    THEN IF field = <<>> THEN fields ELSE Append(fields, field)
    ELSE IF Head(s) \in Whitespace
    THEN FieldsFrom(Tail(s), <<>>, IF field = <<>> THEN fields ELSE Append(fields, field))
    ELSE FieldsFrom(Tail(s), Append(field, Head(s)), fields)

Fields(s) == FieldsFrom(s, <<>>, <<>>)

AuthClientError == NewError("firebase", <<"could not create the auth client">>)

VerifyError == NewError("auth", <<"ID token has expired">>)

\* What authClient.VerifyIDToken returns: a token and an error, each nil or not
VerifyResults == [token : {"nil", "token"}, err : {NilErr, VerifyError}]

AuthReturned(token, status) == [kind |-> "return", token |-> token, status |-> status]

AuthPanicked == [kind |-> "panic", token |-> "nil", status |-> 0]

\* checkFirebaseUserAuthorized: what it returns and logs for a header, the error
\* of fireapp.Auth and the result of VerifyIDToken
checkFirebaseUserAuthorized(authHeader, authErr, verified) ==
    LET tokenSlice == Fields(authHeader)
    IN  IF authHeader = <<>>
        THEN [ret |-> AuthReturned("nil", StatusUnauthorized),
              logs |-> <<LogWrite(LogTypeInfo, 0, <<"empty auth header">>)>>]
        ELSE IF Len(tokenSlice) # 2 \/ tokenSlice[1] # <<"Bearer">>
        THEN [ret |-> AuthReturned("nil", StatusUnauthorized), logs |-> <<>>]
        ELSE IF authErr # NilErr
        THEN [ret |-> AuthReturned("nil", StatusInternalServerError),
              logs |-> <<LogWrite(LogTypeInfo, 0, <<"fireapp.Auth error: ">> \o authErr.msg)>>]
        ELSE IF verified.err # NilErr \/ verified.token = "nil"
        THEN IF verified.err = NilErr
             \* err.Error() on a nil error
             THEN [ret |-> AuthPanicked, logs |-> <<>>]
             ELSE [ret |-> AuthReturned("nil", StatusUnauthorized),
                   logs |-> <<LogWrite(LogTypeInfo, 0,
                                       <<"authClient.VerifyIDTokenError: ">>
                                           \o verified.err.msg)>>]
        ELSE [ret |-> AuthReturned(verified.token, StatusOK), logs |-> <<>>]

\* A call of checkFirebaseUserAuthorized
Authorize(authHeader, authErr, verified) ==
    /\ ~authz.called
    /\ authz' = [called |-> TRUE, authHeader |-> authHeader, authErr |-> authErr,
                 verified |-> verified,
                 ret |-> checkFirebaseUserAuthorized(authHeader, authErr, verified).ret,
                 logs |-> checkFirebaseUserAuthorized(authHeader, authErr, verified).logs]
    /\ UNCHANGED <<secret, ie, store, now>>
    /\ UNCHANGED <<firestoreVars, logVars, concVars>>

\* The caller takes the result (after a panic: the function instance starts anew)
AuthReturn ==
    /\ authz.called
    /\ authz' = NoAuthCall
    /\ UNCHANGED <<secret, ie, store, now>>
    /\ UNCHANGED <<firestoreVars, logVars, concVars>>

NextAuth ==
    \/ \E authHeader \in AuthHeaders : \E authErr \in {NilErr, AuthClientError} :
          \E verified \in VerifyResults : Authorize(authHeader, authErr, verified)
    \/ AuthReturn

SpecAuth == Init /\ [][NextAuth]_vars

(***************************************************************************)
(* Properties of checkFirebaseUserAuthorized                               *)
(***************************************************************************)

\* The header is "Bearer" and one more field, separated by white space
WellFormedHeader(h) == Len(Fields(h)) = 2 /\ Fields(h)[1] = <<"Bearer">>

VerificationFailed(v) == v.err # NilErr \/ v.token = "nil"

\* C23: checkFirebaseUserAuthorized never panics; its token is non-nil exactly
\* when the status is 200; an empty or malformed header and a failed
\* verification give 401 and a nil token; an auth client that cannot be
\* obtained gives 500.
C23_AuthorizationOutcomes ==
    authz.called =>
        /\ authz.ret.kind = "return"
        /\ authz.ret.token # "nil" <=> authz.ret.status = 200
        /\ ~WellFormedHeader(authz.authHeader) =>
              authz.ret.token = "nil" /\ authz.ret.status = 401
        /\ WellFormedHeader(authz.authHeader) /\ authz.authErr # NilErr =>
              authz.ret.token = "nil" /\ authz.ret.status = 500
        /\ /\ WellFormedHeader(authz.authHeader)
           /\ authz.authErr = NilErr
           /\ VerificationFailed(authz.verified)
           => authz.ret.token = "nil" /\ authz.ret.status = 401

(***************************************************************************)
(* Properties of a panicking notifier                                      *)
(***************************************************************************)

\* C24: a hook that panics does not make the log call panic: the call returns,
\* and its entry went to its sink before the hook was invoked.
C24_HookPanicIsContained ==
    lastLog.sev # "none" =>
        /\ lastLog.returned
        /\ \A k \in 1..Len(lastLog.events) :
              lastLog.events[k].kind = "notify" =>
                  \E j \in 1..(k - 1) : lastLog.events[j].kind \in {"stdout-json", "cloud"}

C24_Witness ==
    /\ lastLog.returned
    /\ Len(lastLog.events) = 3
    /\ lastLog.events[1].kind \in {"stdout-json", "cloud"}
    /\ lastLog.events[2].kind = "notify"
    /\ lastLog.events[3].kind = "recover"

====
